---------------------------- MODULE Spec2Model ----------------------------
(***************************************************************************)
(* Model of code-postprocessing/bbob_pproc/bestalg.py: the construction of *)
(* a BestAlgSet (the virtual best algorithm of one function/dimension      *)
(* cell), its queries detERT and detEvals, and the two portfolio analyses  *)
(* getAllContributingAlgorithmsToBest and extractBestAlgorithms.           *)
(*                                                                         *)
(* Numbers.  Running times, targets and function values are floats in the  *)
(* code; only comparisons, one product (ert * f_factor) and the median are *)
(* applied to them, so they are modelled as naturals extended with the two *)
(* IEEE values the code tests for, Inf and NaN.  Targets of an aligned     *)
(* grid are modelled by their rank: a grid of k rows has the targets       *)
(* k, k-1, .., 1 (column 0 is strictly decreasing down the rows).          *)
(***************************************************************************)
EXTENDS Integers, Sequences, FiniteSets, TLC

VARIABLES
    pc,             \* position in BestAlgSet.__init__ / the query being served
    err,            \* the exception that ended the construction ("" = none)
    dict_alg,       \* the dict_alg argument, then tmpdictAlg (line 134)
    warned,         \* algorithms a warning was issued for (lines 122, 126)
    usage,          \* whether the Usage(...) expression of line 111 was evaluated
    d, f,           \* the sets of lines 104-108, then the popped values
    dictMaxEvals, dictFinalFunVals,
    sortedAlgs,     \* line 136
    res,            \* the aligned grid of line 142
    resalgs, reserts,
    resDataSet,     \* line 169
    dictFunValsNoFail,
    self,           \* the fields of the object under construction
    qtargets, qres, \* the argument and the result of the last query
    \* getAllContributingAlgorithmsToBest and extractBestAlgorithms
    called,         \* the function called ("" = none)
    args,           \* its algorithm list
    cells,          \* the (funcId, dim) cells of the data, in iteration order
    f_factor, target_lb, target_ub,
    considered,     \* whether the target of row i is in the target set
    bestalgentries, \* line 561
    cell,           \* number of the cell of cells being processed
    best,           \* line 629; the rows read so far
    irow,           \* i of line 631
    rowerts,        \* currERT of each algorithm at the target of row i
    rowstart,       \* length of selectedAlgsPerProblemDF when row i began
    selectedAlgsPerProblemDF, selectedAlgsPerProblem,
    given,          \* credits appended so far, per (dim, algorithm)
    countsperalgorithm, selectedalgsperdimension,
    printed         \* the lines printed, per dimension

cvars == <<dict_alg, warned, usage, d, f, dictMaxEvals, dictFinalFunVals,
           sortedAlgs, res, resalgs, reserts, resDataSet, dictFunValsNoFail,
           self, qtargets, qres>>
pvars == <<called, args, cells, f_factor, considered, target_lb, target_ub,
           bestalgentries, cell, best, irow, rowerts, rowstart,
           selectedAlgsPerProblemDF, selectedAlgsPerProblem, given,
           countsperalgorithm, selectedalgsperdimension, printed>>
vars == <<pc, err, cvars, pvars>>

(***************************************************************************)
(* Bounds of the model.                                                    *)
(***************************************************************************)
MaxRecs == 2        \* records one algorithm has for the cell: 0..MaxRecs
MaxRows == 2        \* rows of an aligned grid, of an evals or funvals array
MaxErt == 2         \* finite running times are 1..MaxErt
MaxRuns == 2        \* runs (instances) of one data set: 1..MaxRuns
MaxFun == 0         \* final function values are 0..MaxFun
MaxQuery == 2       \* length of the target list of one query

Algs == <<"A", "B">>             \* the algorithm names, in dictionary order
AlgSet == {Algs[i] : i \in 1..Len(Algs)}
Keys == {<<1, 2>>, <<2, 2>>, <<1, 3>>}   \* (funcId, dim) of a record

(***************************************************************************)
(* Floats: naturals, np.inf and np.nan.                                    *)
(***************************************************************************)
NaN == 0 - 1
Inf == 0 - 2
isnan(x) == x = NaN
Eq(a, b) == ~isnan(a) /\ ~isnan(b) /\ a = b
Lt(a, b) == ~isnan(a) /\ ~isnan(b) /\ a # Inf /\ (b = Inf \/ a < b)
Le(a, b) == Lt(a, b) \/ Eq(a, b)
Gt(a, b) == Lt(b, a)
Ge(a, b) == Le(b, a)
Mul(a, k) == IF isnan(a) THEN NaN ELSE IF a = Inf THEN Inf ELSE a * k

ErtVals == {NaN, Inf} \cup (1..MaxErt)
Range(s) == {s[i] : i \in DOMAIN s}
\* the subsequence of Algs whose elements are in S: the iteration order of
\* a dictionary with the keys S
RECURSIVE KeysOf(_, _)
KeysOf(S, i) ==
    IF i > Len(Algs) THEN <<>>
    ELSE (IF Algs[i] \in S THEN <<Algs[i]>> ELSE <<>>) \o KeysOf(S, i + 1)
keys(S) == KeysOf(S, 1)

(***************************************************************************)
(* The inputs.  A DataSetList is a sequence of records; the fields of a    *)
(* record that a step reads are drawn when the step reads them.            *)
(***************************************************************************)
DataSetLists == UNION {[1..n -> Keys] : n \in 0..MaxRecs}
FinalFunVals == UNION {[1..n -> 0..MaxFun] : n \in 1..MaxRuns}

NoSelf == [algs |-> <<>>]

\* no portfolio function is running
NoCall ==
    /\ called = ""
    /\ args = <<>>
    /\ cells = <<>>
    /\ f_factor = 0
    /\ considered = FALSE
    /\ target_lb = 0
    /\ target_ub = 0
    /\ bestalgentries = <<>>
    /\ cell = 0
    /\ best = NoSelf
    /\ irow = 0
    /\ rowerts = <<>>
    /\ rowstart = 0
    /\ selectedAlgsPerProblemDF = <<>>
    /\ selectedAlgsPerProblem = <<>>
    /\ given = <<>>
    /\ countsperalgorithm = <<>>
    /\ selectedalgsperdimension = <<>>
    /\ printed = <<>>

Init ==
    /\ pc = "start"
    /\ err = ""
    /\ dict_alg \in [AlgSet -> DataSetLists]
    /\ warned = {}
    /\ usage = FALSE
    /\ d = {}
    /\ f = {}
    /\ dictMaxEvals = <<>>
    /\ dictFinalFunVals = <<>>
    /\ sortedAlgs = <<>>
    /\ res = <<>>
    /\ resalgs = <<>>
    /\ reserts = <<>>
    /\ resDataSet = <<>>
    /\ dictFunValsNoFail = <<>>
    /\ self = NoSelf
    /\ qtargets = <<>>
    /\ qres = <<>>
    /\ NoCall

Raise(e) == pc' = "failed" /\ err' = e

(***************************************************************************)
(* Lines 104-115: the usage check.  Usage(...) builds an exception object  *)
(* and drops it: there is no raise statement, so control goes on to the    *)
(* two pop() calls, which take an arbitrary element of each set.           *)
(***************************************************************************)
dims == UNION {{dict_alg[a][j][2] : j \in DOMAIN dict_alg[a]} : a \in DOMAIN dict_alg}
funcIds == UNION {{dict_alg[a][j][1] : j \in DOMAIN dict_alg[a]} : a \in DOMAIN dict_alg}

CheckUsage ==
    /\ pc = "start"
    /\ usage' = (Cardinality(funcIds) > 1 \/ Cardinality(dims) > 1)
    /\ IF funcIds = {}
       THEN /\ Raise("KeyError")          \* pop from an empty set
            /\ UNCHANGED <<d, f>>
       ELSE /\ f' \in funcIds
            /\ d' \in dims
            /\ pc' = "filter"
            /\ err' = err
    /\ UNCHANGED pvars
    /\ UNCHANGED <<dict_alg, warned, dictMaxEvals, dictFinalFunVals, sortedAlgs,
                   res, resalgs, reserts, resDataSet, dictFunValsNoFail, self,
                   qtargets, qres>>

(***************************************************************************)
(* Lines 117-136: algorithms with no record or several are skipped with a  *)
(* warning; the others are kept with their single record.                  *)
(***************************************************************************)
\* kept without the continue of line 128: several records, the first is taken
kept_SeveralRecords == {a \in DOMAIN dict_alg : Len(dict_alg[a]) >= 1}

kept == {a \in DOMAIN dict_alg : Len(dict_alg[a]) = 1}

Filter ==
    /\ pc = "filter"
    /\ warned' = {a \in DOMAIN dict_alg : Len(dict_alg[a]) = 0 \/ Len(dict_alg[a]) > 1}
    /\ dictFinalFunVals' \in [kept -> FinalFunVals]
    /\ dictMaxEvals' = [a \in kept |-> [r \in DOMAIN dictFinalFunVals'[a] |-> MaxRows]]
    /\ dict_alg' = [a \in kept |-> "i[0]"]     \* the single DataSet of a
    /\ sortedAlgs' = keys(kept)
    /\ pc' = "align"
    /\ UNCHANGED pvars
    /\ UNCHANGED <<err, usage, d, f, res, resalgs, reserts, resDataSet,
                   dictFunValsNoFail, self, qtargets, qres>>

(***************************************************************************)
(* Lines 139-142: the running-time curves of the kept algorithms are       *)
(* aligned by readalign.alignArrayData, which is not part of this file.    *)
(* Its result is an input here: any grid with one column per kept          *)
(* algorithm, in the order of sortedAlgs, whose entries are running times  *)
(* or NaN.  Aligning no curve at all fails inside the aligner.             *)
(***************************************************************************)
Grids(n) ==
    UNION {{[i \in 1..k |-> <<k - i + 1>> \o e[i]] : e \in [1..k -> [1..n -> ErtVals]]}
           : k \in 1..MaxRows}

Align ==
    /\ pc = "align"
    /\ IF Len(sortedAlgs) = 0
       THEN Raise("ValueError") /\ res' = res
       ELSE /\ res' \in Grids(Len(sortedAlgs))
            /\ pc' = "best"
            /\ err' = err
    /\ UNCHANGED pvars
    /\ UNCHANGED <<dict_alg, warned, usage, d, f, dictMaxEvals, dictFinalFunVals,
                   sortedAlgs, resalgs, reserts, resDataSet, dictFunValsNoFail,
                   self, qtargets, qres>>

(***************************************************************************)
(* Lines 144-165: for each row of the grid, the best algorithm.            *)
(***************************************************************************)
\* line 150: len() of the boolean array is the number of columns
AssertHolds(curerts) == Len(curerts) > 0

\* ScanRow with the test of line 161 as <=: a later equal value replaces
RECURSIVE ScanRow_LaterEqualWins(_, _, _, _, _)
ScanRow_LaterEqualWins(curerts, algs, j, currentbestert, currentbestalg) ==
    IF j > Len(curerts) THEN <<currentbestert, currentbestalg>>
    ELSE LET tmpert == curerts[j] IN
         IF ~isnan(tmpert) /\ Le(tmpert, currentbestert)
         THEN ScanRow_LaterEqualWins(curerts, algs, j + 1, tmpert, algs[j])
         ELSE ScanRow_LaterEqualWins(curerts, algs, j + 1, currentbestert, currentbestalg)

\* lines 153-163, from column j on, with the best found so far
RECURSIVE ScanRow(_, _, _, _, _)
ScanRow(curerts, algs, j, currentbestert, currentbestalg) ==
    IF j > Len(curerts) THEN <<currentbestert, currentbestalg>>
    ELSE LET tmpert == curerts[j] IN
         IF isnan(tmpert)
         THEN ScanRow(curerts, algs, j + 1, currentbestert, currentbestalg)
         ELSE IF Eq(tmpert, currentbestert)
         THEN ScanRow(curerts, algs, j + 1, currentbestert, currentbestalg)
         ELSE IF Lt(tmpert, currentbestert)
         THEN ScanRow(curerts, algs, j + 1, tmpert, algs[j])
         ELSE ScanRow(curerts, algs, j + 1, currentbestert, currentbestalg)

\* BestOfRow that starts from the first algorithm instead of ''
BestOfRow_Defaulted(i, algs) == ScanRow(Tail(i), algs, 1, Inf, algs[1])

\* lines 149-165 for one row i of the grid: <<currentbestert, currentbestalg>>
BestOfRow(i, algs) == ScanRow(Tail(i), algs, 1, Inf, "")

FindBest ==
    /\ pc = "best"
    /\ IF \E i \in DOMAIN res : ~AssertHolds(Tail(res[i]))
       THEN Raise("AssertionError") /\ UNCHANGED <<resalgs, reserts>>
       ELSE /\ reserts' = [i \in DOMAIN res |-> BestOfRow(res[i], sortedAlgs)[1]]
            /\ resalgs' = [i \in DOMAIN res |-> BestOfRow(res[i], sortedAlgs)[2]]
            /\ pc' = "evals"
            /\ err' = err
    /\ UNCHANGED pvars
    /\ UNCHANGED <<dict_alg, warned, usage, d, f, dictMaxEvals, dictFinalFunVals,
                   sortedAlgs, res, resDataSet, dictFunValsNoFail, self,
                   qtargets, qres>>

(***************************************************************************)
(* Lines 167-183: the evaluations of the best algorithm of each row, read  *)
(* with one forward iterator per algorithm.  An evals array is a sequence  *)
(* of rows <<alignment value, evaluations of run 1, ..>>; row number k     *)
(* holds the evaluation count k for every run.                             *)
(***************************************************************************)
RECURSIVE DescSeq(_)
DescSeq(S) ==
    IF S = {} THEN <<>>
    ELSE LET m == CHOOSE x \in S : \A y \in S : y <= x IN <<m>> \o DescSeq(S \ {m})

\* the evals arrays of a data set of n runs
EvalsArrays(n) ==
    {[k \in 1..Len(DescSeq(S)) |-> <<DescSeq(S)[k]>> \o [r \in 1..n |-> k]]
     : S \in (SUBSET (1..MaxRows)) \ {{}}}

\* lines 175-179: <<rows consumed, curLine>>
RECURSIVE Advance(_, _, _, _)
Advance(evals, it, curLine, funval) ==
    IF Gt(curLine[1], funval)
    THEN IF it < Len(evals)
         THEN Advance(evals, it + 1, evals[it + 1], funval)
         ELSE <<it, curLine>>                      \* StopIteration: break
    ELSE <<it, curLine>>

\* WriteRows with one iterator and one current line for all the algorithms
RECURSIVE WriteRows_OneCursor(_, _, _, _, _, _)
WriteRows_OneCursor(grid, algs, evalsOf, i, dictiter, dictcurLine) ==
    IF i > Len(grid) THEN <<>>
    ELSE LET funval == grid[i][1]
             alg == algs[i]
             it == IF "all" \in DOMAIN dictiter THEN dictiter["all"] ELSE 0
             curLine == IF "all" \in DOMAIN dictcurLine THEN dictcurLine["all"]
                        ELSE <<Inf, 0>>
             adv == Advance(evalsOf[alg], it, curLine, funval)
             tmp == [adv[2] EXCEPT ![1] = funval]
         IN <<tmp>> \o WriteRows_OneCursor(grid, algs, evalsOf, i + 1,
                                           ("all" :> adv[1]) @@ dictiter,
                                           ("all" :> adv[2]) @@ dictcurLine)

\* lines 172-183 from row i on; dictiter and dictcurLine are the two
\* dictionaries of lines 167-168
RECURSIVE WriteRows(_, _, _, _, _, _)
WriteRows(grid, algs, evalsOf, i, dictiter, dictcurLine) ==
    IF i > Len(grid) THEN <<>>
    ELSE LET funval == grid[i][1]
             alg == algs[i]
             it == IF alg \in DOMAIN dictiter THEN dictiter[alg] ELSE 0
             curLine == IF alg \in DOMAIN dictcurLine THEN dictcurLine[alg]
                        ELSE <<Inf, 0>>
             adv == Advance(evalsOf[alg], it, curLine, funval)
             tmp == [adv[2] EXCEPT ![1] = funval]
         IN <<tmp>> \o WriteRows(grid, algs, evalsOf, i + 1,
                                 (alg :> adv[1]) @@ dictiter,
                                 (alg :> adv[2]) @@ dictcurLine)

Runs(alg) == Len(dictFinalFunVals[alg])

WriteEvals ==
    /\ pc = "evals"
    /\ IF \E i \in DOMAIN resalgs : resalgs[i] \notin DOMAIN dict_alg
       THEN Raise("KeyError") /\ resDataSet' = resDataSet      \* dict_alg[alg], line 173
       ELSE /\ \E evalsOf \in [Range(resalgs) -> UNION {EvalsArrays(n) : n \in 1..MaxRuns}] :
                 /\ \A a \in Range(resalgs) : evalsOf[a] \in EvalsArrays(Runs(a))
                 /\ resDataSet' = WriteRows(res, resalgs, evalsOf, 1, <<>>, <<>>)
            /\ pc' = "nofail"
            /\ err' = err
    /\ UNCHANGED pvars
    /\ UNCHANGED <<dict_alg, warned, usage, d, f, dictMaxEvals, dictFinalFunVals,
                   sortedAlgs, res, resalgs, reserts, dictFunValsNoFail, self,
                   qtargets, qres>>

(***************************************************************************)
(* Lines 185-192: one row of the funvals array of every best algorithm.    *)
(* A funvals array is a sequence of rows <<evaluations, value of run 1,    *)
(* ..>>; the values of a run do not increase down the rows.                *)
(***************************************************************************)
FunValsArrays(n) ==
    UNION {{[k \in 1..m |-> <<k>> \o t[k]] : t \in
              {u \in [1..m -> [1..n -> 0..MaxFun]] :
                  \A k \in 1..(m - 1) : \A r \in 1..n : u[k + 1][r] <= u[k][r]}}
           : m \in 1..MaxRows}

\* AnyEqual with .all() for .any()
AnyEqual_All(curline, finalfunvals) ==
    \A r \in DOMAIN finalfunvals : Eq(curline[r + 1], finalfunvals[r])

\* line 189: (curline[1:] == finalfunvals).any()
AnyEqual(curline, finalfunvals) ==
    \E r \in DOMAIN finalfunvals : Eq(curline[r + 1], finalfunvals[r])

\* lines 188-192: the row at which the loop over funvals breaks, or the last
RECURSIVE NoFailRow(_, _, _)
NoFailRow(funvals, finalfunvals, k) ==
    IF AnyEqual(funvals[k], finalfunvals) \/ k = Len(funvals)
    THEN funvals[k]
    ELSE NoFailRow(funvals, finalfunvals, k + 1)

\* setalgs as all the kept algorithms, winners or not
setalgs_AllKept == DOMAIN dict_alg

setalgs == Range(resalgs)

NoFail ==
    /\ pc = "nofail"
    /\ \E funvalsOf \in [setalgs -> UNION {FunValsArrays(n) : n \in 1..MaxRuns}] :
          /\ \A a \in setalgs : funvalsOf[a] \in FunValsArrays(Runs(a))
          /\ dictFunValsNoFail' =
                [a \in setalgs |-> NoFailRow(funvalsOf[a], dictFinalFunVals[a], 1)]
    /\ pc' = "fields"
    /\ UNCHANGED pvars
    /\ UNCHANGED <<err, dict_alg, warned, usage, d, f, dictMaxEvals, dictFinalFunVals,
                   sortedAlgs, res, resalgs, reserts, resDataSet, self,
                   qtargets, qres>>

(***************************************************************************)
(* Lines 194-214: the fields of the object, and the algorithm with the     *)
(* best median of the final function values.                               *)
(***************************************************************************)
\* twice np.median(v)
Median2(v) ==
    LET s == SortSeq(v, LAMBDA a, b : Lt(a, b))
        n == Len(v)
        lo == s[(n + 1) \div 2]
        hi == s[(n \div 2) + 1]
    IN IF lo = Inf \/ hi = Inf THEN Inf ELSE lo + hi

\* BestFinal with <= for < at line 210
RECURSIVE BestFinal_LaterEqualWins(_, _, _)
BestFinal_LaterEqualWins(j, bestfinalfunvals, algbestfinalfunvals) ==
    IF j > Len(sortedAlgs) THEN <<bestfinalfunvals, algbestfinalfunvals>>
    ELSE LET alg == sortedAlgs[j] IN
         IF Le(Median2(dictFinalFunVals[alg]), Median2(bestfinalfunvals))
         THEN BestFinal_LaterEqualWins(j + 1, dictFinalFunVals[alg], alg)
         ELSE BestFinal_LaterEqualWins(j + 1, bestfinalfunvals, algbestfinalfunvals)

\* lines 208-212 from position j of sortedAlgs on: <<bestfinalfunvals, algbestfinalfunvals>>
RECURSIVE BestFinal(_, _, _)
BestFinal(j, bestfinalfunvals, algbestfinalfunvals) ==
    IF j > Len(sortedAlgs) THEN <<bestfinalfunvals, algbestfinalfunvals>>
    ELSE LET alg == sortedAlgs[j] IN
         IF Lt(Median2(dictFinalFunVals[alg]), Median2(bestfinalfunvals))
         THEN BestFinal(j + 1, dictFinalFunVals[alg], alg)
         ELSE BestFinal(j + 1, bestfinalfunvals, algbestfinalfunvals)

Unbound == "<unbound>"

SetFields ==
    /\ pc = "fields"
    /\ LET bestfinal == BestFinal(1, <<Inf>>, Unbound) IN
       IF bestfinal[2] = Unbound
       THEN Raise("UnboundLocalError") /\ self' = self        \* line 214
       ELSE /\ self' = [evals |-> resDataSet,
                        maxevals |-> [i \in setalgs |-> dictMaxEvals[i]],
                        finalfunvals |-> [i \in setalgs |-> dictFinalFunVals[i]],
                        funvalsnofail |-> dictFunValsNoFail,
                        dim |-> d,
                        funcId |-> f,
                        algs |-> resalgs,
                        algId |-> "Virtual Best Algorithm",
                        comment |-> sortedAlgs,   \* 'Combination of ' + the names
                        ert |-> reserts,
                        target |-> [i \in DOMAIN res |-> res[i][1]],
                        bestfinalfunvals |-> bestfinal[1],
                        algbestfinalfunvals |-> bestfinal[2]]
            /\ pc' = "constructed"
            /\ err' = err
    /\ UNCHANGED pvars
    /\ UNCHANGED <<dict_alg, warned, usage, d, f, dictMaxEvals, dictFinalFunVals,
                   sortedAlgs, res, resalgs, reserts, resDataSet, dictFunValsNoFail,
                   qtargets, qres>>

\* __init__ returns: its local variables are gone, the object remains
Return ==
    /\ pc = "constructed"
    /\ pc' = "done"
    /\ dict_alg' = <<>>
    /\ d' = {}
    /\ f' = {}
    /\ dictMaxEvals' = <<>>
    /\ dictFinalFunVals' = <<>>
    /\ sortedAlgs' = <<>>
    /\ res' = <<>>
    /\ resalgs' = <<>>
    /\ reserts' = <<>>
    /\ resDataSet' = <<>>
    /\ dictFunValsNoFail' = <<>>
    /\ UNCHANGED pvars
    /\ UNCHANGED <<err, warned, usage, self, qtargets, qres>>

(***************************************************************************)
(* Lines 285-325: the two queries of a constructed object.                 *)
(***************************************************************************)
QueryVals == 0..(MaxRows + 1)
TargetLists == UNION {[1..n -> QueryVals] : n \in 1..MaxQuery}
None == "None"

\* self.ert[idx] for the boolean mask idx = (self.target <= f): the entries
\* of ert at the rows i, from row k on, where target[i] <= ftarget
RECURSIVE Masked(_, _, _, _)
Masked(ert, target, ftarget, k) ==
    IF k > Len(target) THEN <<>>
    ELSE (IF Le(target[k], ftarget) THEN <<ert[k]>> ELSE <<>>)
         \o Masked(ert, target, ftarget, k + 1)

\* ertAt with the last selected entry, self.ert[idx][-1]
ertAt_Last(ftarget) ==
    LET sel == Masked(self.ert, self.target, ftarget, 1) IN
    IF Len(sel) = 0 THEN Inf ELSE sel[Len(sel)]

\* lines 296-300 for one target f (ftarget), on the object obj
ertOf(obj, ftarget) ==
    LET sel == Masked(obj.ert, obj.target, ftarget, 1) IN
    IF Len(sel) = 0 THEN Inf              \* IndexError
    ELSE sel[1]

ertAt(ftarget) == ertOf(self, ftarget)

\* ScanEvals with the test of line 319 as <
RECURSIVE ScanEvals_Strict(_, _)
ScanEvals_Strict(ftarget, i) ==
    IF i > Len(self.evals)
    THEN <<[r \in 1..Len(self.bestfinalfunvals) |-> NaN], "None">>
    ELSE IF Lt(self.evals[i][1], ftarget)
    THEN <<Tail(self.evals[i]), self.algs[i]>>
    ELSE ScanEvals_Strict(ftarget, i + 1)

\* lines 316-322 for one target f (ftarget): <<tmp, tmp2>>, scanning evals from line i
RECURSIVE ScanEvals(_, _)
ScanEvals(ftarget, i) ==
    IF i > Len(self.evals)
    THEN <<[r \in 1..Len(self.bestfinalfunvals) |-> NaN], None>>
    ELSE IF Le(self.evals[i][1], ftarget)
    THEN <<Tail(self.evals[i]), self.algs[i]>>
    ELSE ScanEvals(ftarget, i + 1)

evalsAt(ftarget) == ScanEvals(ftarget, 1)

detERT(targets) == [k \in DOMAIN targets |-> ertAt(targets[k])]
detEvals(targets) == <<[k \in DOMAIN targets |-> evalsAt(targets[k])[1]],
                       [k \in DOMAIN targets |-> evalsAt(targets[k])[2]]>>

CallDetERT ==
    /\ pc = "done"
    /\ \E targets \in TargetLists :
          /\ qtargets' = targets
          /\ qres' = [op |-> "detERT", res |-> detERT(targets)]
    /\ pc' = "returned"
    /\ UNCHANGED pvars
    /\ UNCHANGED <<err, dict_alg, warned, usage, d, f, dictMaxEvals,
                   dictFinalFunVals, sortedAlgs, res, resalgs, reserts, resDataSet,
                   dictFunValsNoFail, self>>

CallDetEvals ==
    /\ pc = "done"
    /\ \E targets \in TargetLists :
          /\ qtargets' = targets
          /\ qres' = [op |-> "detEvals", res |-> detEvals(targets)]
    /\ pc' = "returned"
    /\ UNCHANGED pvars
    /\ UNCHANGED <<err, dict_alg, warned, usage, d, f, dictMaxEvals,
                   dictFinalFunVals, sortedAlgs, res, resalgs, reserts, resDataSet,
                   dictFunValsNoFail, self>>

\* the caller has taken the result; the object is ready for the next query
NextQuery ==
    /\ pc = "returned"
    /\ pc' = "done"
    /\ qtargets' = <<>>
    /\ qres' = <<>>
    /\ UNCHANGED pvars
    /\ UNCHANGED <<err, dict_alg, warned, usage, d, f, dictMaxEvals,
                   dictFinalFunVals, sortedAlgs, res, resalgs, reserts, resDataSet,
                   dictFunValsNoFail, self>>

Next ==
    \/ CheckUsage \/ Filter \/ Align \/ FindBest \/ WriteEvals \/ NoFail
    \/ SetFields \/ Return \/ CallDetERT \/ CallDetEvals \/ NextQuery


(***************************************************************************)
(* Lines 531-595 and 598-689: the two portfolio analyses.  Both load the   *)
(* data of the algorithms of their argument list and visit the cells       *)
(* (funcId, dim) of the data, function by function; every algorithm of the *)
(* list has one data set in every cell.  The aligned grid of a cell is an  *)
(* input, as in the construction above; the object built from it is given  *)
(* by BestOfRow, and its construction fails on a row that has no winner.   *)
(***************************************************************************)
MaxFactor == 2      \* f_factor is 1..MaxFactor

CellLists == {<< <<1, 2>> >>, << <<1, 2>>, <<2, 2>> >>, << <<1, 2>>, <<1, 3>> >>}
Dims == {2, 3}
Contrib == "getAllContributingAlgorithmsToBest"
Extract == "extractBestAlgorithms"
Unread == "unread"  \* a row of best the loop of line 631 has not reached

\* nothing is under construction and no query is being served
NoObject ==
    /\ dict_alg = <<>>
    /\ warned = {}
    /\ usage = FALSE
    /\ d = {}
    /\ f = {}
    /\ dictMaxEvals = <<>>
    /\ dictFinalFunVals = <<>>
    /\ sortedAlgs = <<>>
    /\ res = <<>>
    /\ resalgs = <<>>
    /\ reserts = <<>>
    /\ resDataSet = <<>>
    /\ dictFunValsNoFail = <<>>
    /\ self = NoSelf
    /\ qtargets = <<>>
    /\ qres = <<>>

\* the start of a call of the function fun with the algorithm list algs
\* on data of the cells cs
InitCall(fun, algs, cs) ==
    /\ pc = "call"
    /\ err = ""
    /\ NoObject
    /\ called = fun
    /\ args = algs
    /\ cells = cs
    /\ IF called = Extract
       THEN /\ f_factor \in 1..MaxFactor
            /\ target_lb = 0
            /\ target_ub = 0
       ELSE /\ f_factor = 0
            /\ target_lb \in QueryVals
            /\ target_ub \in QueryVals
            /\ target_lb <= target_ub
    /\ considered = FALSE
    /\ bestalgentries = <<>>
    /\ cell = 0
    /\ best = NoSelf
    /\ irow = 0
    /\ rowerts = <<>>
    /\ rowstart = 0
    /\ selectedAlgsPerProblemDF = <<>>
    /\ selectedAlgsPerProblem = <<>>
    /\ given = [k \in Dims \X Range(args) |-> 0]
    /\ countsperalgorithm = <<>>
    /\ selectedalgsperdimension = <<>>
    /\ printed = <<>>

\* either analysis, of two algorithms, on one or two cells
InitPortfolio ==
    \E fun \in {Contrib, Extract}, cs \in CellLists :
       InitCall(fun, <<"A", "B">>, cs)

\* extractBestAlgorithms of three algorithms on one cell
InitExtract == InitCall(Extract, <<"A", "B", "C">>, << <<1, 2>> >>)

\* the fields of BestAlgSet(j) the analyses read, for the aligned grid grid
BestAlgSet(grid, algs) ==
    [target |-> [k \in DOMAIN grid |-> grid[k][1]],
     algs |-> [k \in DOMAIN grid |-> BestOfRow(grid[k], algs)[2]],
     ert |-> [k \in DOMAIN grid |-> BestOfRow(grid[k], algs)[1]]]

\* lines 404-407, one cell: res[(d, f)] = BestAlgSet(j)
GenerateCell ==
    /\ pc = "call"
    /\ called = Contrib
    /\ cell < Len(cells)
    /\ \E tmp \in {BestAlgSet(grid, args) : grid \in Grids(Len(args))} :
          LET key == <<cells[cell + 1][2], cells[cell + 1][1]>> IN
          IF \E k \in DOMAIN tmp.algs : tmp.algs[k] = ""
          THEN Raise("KeyError") /\ UNCHANGED <<bestalgentries, cell>>
          ELSE /\ bestalgentries' = bestalgentries @@ (key :> tmp)
               /\ cell' = cell + 1
               /\ UNCHANGED <<pc, err>>
    /\ UNCHANGED cvars
    /\ UNCHANGED <<called, args, cells, f_factor, considered, target_lb,
                   target_ub, best, irow, rowerts, rowstart,
                   selectedAlgsPerProblemDF, selectedAlgsPerProblem, given,
                   countsperalgorithm, selectedalgsperdimension, printed>>

\* list.count(a)
count(list, a) == Cardinality({k \in DOMAIN list : list[k] = a})

\* lines 565-573: the winners of the rows of one entry whose target is in
\* [target_lb, target_ub], from row k on
RECURSIVE Corrected(_, _)
Corrected(entry, k) ==
    IF k > Len(entry.target) THEN <<>>
    ELSE (IF Ge(entry.target[k], target_lb) /\ Le(entry.target[k], target_ub)
          THEN <<entry.algs[k]>> ELSE <<>>) \o Corrected(entry, k + 1)

\* CountCell with = for += at lines 581 and 675
CountCell_Overwrite(counts, dim, list, setofalgs) ==
    LET new == {<<dim, a>> : a \in setofalgs} IN
    [k \in DOMAIN counts \cup new |->
        IF k \in new THEN count(list, k[2]) ELSE counts[k]]

\* lines 577-581 and 671-675: the loop over setofalgs for one cell of
\* dimension dim whose credits are list
CountCell(counts, dim, list, setofalgs) ==
    LET new == {<<dim, a>> : a \in setofalgs} IN
    [k \in DOMAIN counts \cup new |->
        (IF k \in DOMAIN counts THEN counts[k] ELSE 0)
        + (IF k \in new THEN count(list, k[2]) ELSE 0)]

\* lines 565-581 for the cells k.. of cells
RECURSIVE CountEntries(_, _)
CountEntries(k, counts) ==
    IF k > Len(cells) THEN counts
    ELSE LET key == <<cells[k][2], cells[k][1]>>
             setofalgs == Range(bestalgentries[key].algs)
             correctedbestalgentries == Corrected(bestalgentries[key], 1) IN
         CountEntries(k + 1, CountCell(counts, key[1], correctedbestalgentries,
                                       setofalgs))

CountContributions ==
    /\ pc = "call"
    /\ called = Contrib
    /\ cell = Len(cells)
    /\ countsperalgorithm' = CountEntries(1, <<>>)
    /\ pc' = "rank"
    /\ UNCHANGED <<err, cvars>>
    /\ UNCHANGED <<called, args, cells, f_factor, considered, target_lb,
                   target_ub, bestalgentries, cell, best, irow, rowerts,
                   rowstart, selectedAlgsPerProblemDF, selectedAlgsPerProblem,
                   given, selectedalgsperdimension, printed>>

\* the order of the algorithm names and of the dimensions under sorted()
AlgOrder == <<"A", "B", "C">>
DimOrder == <<2, 3>>
AlgRank(a) == CHOOSE k \in DOMAIN AlgOrder : AlgOrder[k] = a

\* lines 583-587 and 677-681 for one dimension: the (count, algorithm)
\* pairs of dim in the order of sorted(countsperalgorithm), from name k on
RECURSIVE PairsOf(_, _)
PairsOf(dim, k) ==
    IF k > Len(AlgOrder) THEN <<>>
    ELSE (IF <<dim, AlgOrder[k]>> \in DOMAIN countsperalgorithm
          THEN << <<countsperalgorithm[<<dim, AlgOrder[k]>>], AlgOrder[k]>> >>
          ELSE <<>>) \o PairsOf(dim, k + 1)

Rank ==
    /\ pc = "rank"
    /\ selectedalgsperdimension' =
          [dim \in {k[1] : k \in DOMAIN countsperalgorithm} |-> PairsOf(dim, 1)]
    /\ pc' = "print"
    /\ UNCHANGED <<err, cvars>>
    /\ UNCHANGED <<called, args, cells, f_factor, considered, target_lb,
                   target_ub, bestalgentries, cell, best, irow, rowerts,
                   rowstart, selectedAlgsPerProblemDF, selectedAlgsPerProblem,
                   given, countsperalgorithm, printed>>

\* the order of (count, alg) tuples under sorted(..., reverse=True)
Before(x, y) ==
    x[1] > y[1] \/ (x[1] = y[1] /\ AlgRank(x[2]) > AlgRank(y[2]))

\* lines 589-593 and 683-687, from dimension k of DimOrder on
RECURSIVE Lines(_)
Lines(k) ==
    IF k > Len(DimOrder) THEN <<>>
    ELSE (IF DimOrder[k] \in DOMAIN selectedalgsperdimension
          THEN << <<DimOrder[k],
                    SortSeq(selectedalgsperdimension[DimOrder[k]], Before)>> >>
          ELSE <<>>) \o Lines(k + 1)

PrintRanking ==
    /\ pc = "print"
    /\ printed' = Lines(1)
    /\ pc' = "finished"
    /\ UNCHANGED <<err, cvars>>
    /\ UNCHANGED <<called, args, cells, f_factor, considered, target_lb,
                   target_ub, bestalgentries, cell, best, irow, rowerts,
                   rowstart, selectedAlgsPerProblemDF, selectedAlgsPerProblem,
                   given, countsperalgorithm, selectedalgsperdimension>>

(***************************************************************************)
(* Lines 626-660: the cells of extractBestAlgorithms.  The rows of best    *)
(* do not depend on each other, so the row of the aligned grid that the    *)
(* loop of line 631 reaches is drawn when it is reached, and best holds    *)
(* Unread at the rows after it; a row without winner is the failure of     *)
(* BestAlgSet(j) at line 629.  The test of line 633 and the running time   *)
(* of the data set of an algorithm at the target of the row (line 647) are *)
(* results of calls into pproc and toolsstats: inputs, drawn at the call.  *)
(* A data set answers with a running time, or np.inf for a target it has   *)
(* not reached.                                                            *)
(***************************************************************************)
RunningTimes == {Inf} \cup (1..MaxErt)

StartCell ==
    /\ pc = "call"
    /\ called = Extract
    /\ cell < Len(cells)
    /\ cell' = cell + 1
    /\ selectedAlgsPerProblemDF' = <<>>
    /\ \E n \in 1..MaxRows :
          best' = [target |-> [k \in 1..n |-> n - k + 1],
                   algs |-> [k \in 1..n |-> Unread],
                   ert |-> [k \in 1..n |-> Unread]]
    /\ irow' = 0
    /\ rowerts' = <<>>
    /\ rowstart' = 0
    /\ considered' = FALSE
    /\ pc' = "rows"
    /\ UNCHANGED <<err, cvars>>
    /\ UNCHANGED <<called, args, cells, f_factor, target_lb, target_ub,
                   bestalgentries, selectedAlgsPerProblem, given,
                   countsperalgorithm, selectedalgsperdimension, printed>>

\* CreditScan without lines 656-657
RECURSIVE CreditScan_NoFallback(_, _, _, _, _, _, _, _, _)
CreditScan_NoFallback(j, k, curr, winner, limit, secondbest_ERT, secondbest_str, secondbest_included, out) ==
    IF k > Len(j) THEN out
    ELSE LET astring == j[k]
             currERT == curr[k] IN
         IF astring # winner
         THEN CreditScan_NoFallback(j, k + 1, curr, winner, limit,
                  IF Lt(currERT, secondbest_ERT) THEN currERT ELSE secondbest_ERT,
                  IF Lt(currERT, secondbest_ERT) THEN astring ELSE secondbest_str,
                  secondbest_included \/ Le(currERT, limit),
                  IF Le(currERT, limit) THEN Append(out, astring) ELSE out)
         ELSE CreditScan_NoFallback(j, k + 1, curr, winner, limit, secondbest_ERT,
                  secondbest_str, secondbest_included, out)

\* CreditScan with line 656 as: if secondbest_str != ''
RECURSIVE CreditScan_AlwaysFallback(_, _, _, _, _, _, _, _, _)
CreditScan_AlwaysFallback(j, k, curr, winner, limit, secondbest_ERT, secondbest_str, secondbest_included, out) ==
    IF k > Len(j)
    THEN IF secondbest_str # "" THEN Append(out, secondbest_str) ELSE out
    ELSE LET astring == j[k]
             currERT == curr[k] IN
         IF astring # winner
         THEN CreditScan_AlwaysFallback(j, k + 1, curr, winner, limit,
                  IF Lt(currERT, secondbest_ERT) THEN currERT ELSE secondbest_ERT,
                  IF Lt(currERT, secondbest_ERT) THEN astring ELSE secondbest_str,
                  secondbest_included \/ Le(currERT, limit),
                  IF Le(currERT, limit) THEN Append(out, astring) ELSE out)
         ELSE CreditScan_AlwaysFallback(j, k + 1, curr, winner, limit,
                  secondbest_ERT, secondbest_str, secondbest_included, out)

\* lines 643-657: the loop over the algorithms j from number k on, then the
\* fallback; curr[k] is curralgdata.detERT([t])[0] of algorithm number k,
\* winner is best.algs[i], limit is best.detERT([t])[0] * f_factor and out
\* is what the row has appended so far
RECURSIVE CreditScan(_, _, _, _, _, _, _, _, _)
CreditScan(j, k, curr, winner, limit, secondbest_ERT, secondbest_str, secondbest_included, out) ==
    IF k > Len(j)
    THEN IF ~secondbest_included /\ secondbest_str # ""
         THEN Append(out, secondbest_str) ELSE out
    ELSE LET astring == j[k]
             currERT == curr[k] IN
         IF astring # winner
         THEN CreditScan(j, k + 1, curr, winner, limit,
                  IF Lt(currERT, secondbest_ERT) THEN currERT ELSE secondbest_ERT,
                  IF Lt(currERT, secondbest_ERT) THEN astring ELSE secondbest_str,
                  secondbest_included \/ Le(currERT, limit),
                  IF Le(currERT, limit) THEN Append(out, astring) ELSE out)
         ELSE CreditScan(j, k + 1, curr, winner, limit, secondbest_ERT,
                  secondbest_str, secondbest_included, out)

\* lines 632-657 for the row i of best: what the row appends to
\* selectedAlgsPerProblemDF
RowCredits(b, i, curr, in_approximately) ==
    LET t == b.target[i] IN
    IF in_approximately
    THEN CreditScan(args, 1, curr, b.algs[i], Mul(ertOf(b, t), f_factor),
                    Inf, "", FALSE, <<b.algs[i]>>)
    ELSE <<>>

ExtractRow ==
    /\ pc = "rows"
    /\ irow < Len(best.target)
    /\ \E row \in {BestOfRow(<<best.target[irow + 1]>> \o e, args) :
                       e \in [1..Len(args) -> ErtVals]},
          in_approximately \in BOOLEAN :
       \E curr \in IF in_approximately THEN [1..Len(args) -> RunningTimes]
                   ELSE {<<>>} :
          LET i == irow + 1
              b == [best EXCEPT !.algs[i] = row[2], !.ert[i] = row[1]]
              credits == RowCredits(b, i, curr, in_approximately)
              dim == cells[cell][2] IN
          IF row[2] = ""
          THEN /\ Raise("KeyError")
               /\ UNCHANGED <<best, irow, rowerts, rowstart, considered,
                              selectedAlgsPerProblemDF, given>>
          ELSE /\ best' = b
               /\ considered' = in_approximately
               /\ irow' = i
               /\ rowerts' = curr
               /\ rowstart' = Len(selectedAlgsPerProblemDF)
               /\ selectedAlgsPerProblemDF' = selectedAlgsPerProblemDF \o credits
               /\ given' = [k \in DOMAIN given |->
                              IF k[1] = dim THEN given[k] + count(credits, k[2])
                              ELSE given[k]]
               /\ UNCHANGED <<pc, err>>
    /\ UNCHANGED cvars
    /\ UNCHANGED <<called, args, cells, f_factor, target_lb, target_ub,
                   bestalgentries, cell, selectedAlgsPerProblem,
                   countsperalgorithm, selectedalgsperdimension, printed>>

\* lines 659-660; the locals of the cell are not read again
EndCell ==
    /\ pc = "rows"
    /\ irow = Len(best.target)
    /\ selectedAlgsPerProblem' =
          IF Len(selectedAlgsPerProblemDF) > 0
          THEN selectedAlgsPerProblem
               @@ (<<cells[cell][2], cells[cell][1]>> :> selectedAlgsPerProblemDF)
          ELSE selectedAlgsPerProblem
    /\ best' = NoSelf
    /\ irow' = 0
    /\ rowerts' = <<>>
    /\ rowstart' = 0
    /\ considered' = FALSE
    /\ selectedAlgsPerProblemDF' = <<>>
    /\ pc' = "call"
    /\ UNCHANGED <<err, cvars>>
    /\ UNCHANGED <<called, args, cells, f_factor, target_lb, target_ub,
                   bestalgentries, cell, given,
                   countsperalgorithm, selectedalgsperdimension, printed>>

\* lines 667-675 for the cells k.. of cells that have an entry
RECURSIVE CountSelected(_, _)
CountSelected(k, counts) ==
    IF k > Len(cells) THEN counts
    ELSE LET key == <<cells[k][2], cells[k][1]>> IN
         IF key \in DOMAIN selectedAlgsPerProblem
         THEN CountSelected(k + 1,
                  CountCell(counts, key[1], selectedAlgsPerProblem[key],
                            Range(selectedAlgsPerProblem[key])))
         ELSE CountSelected(k + 1, counts)

Tally ==
    /\ pc = "call"
    /\ called = Extract
    /\ cell = Len(cells)
    /\ countsperalgorithm' = CountSelected(1, <<>>)
    /\ pc' = "rank"
    /\ UNCHANGED <<err, cvars>>
    /\ UNCHANGED <<called, args, cells, f_factor, considered, target_lb,
                   target_ub, bestalgentries, cell, best, irow, rowerts,
                   rowstart, selectedAlgsPerProblemDF, selectedAlgsPerProblem,
                   given, selectedalgsperdimension, printed>>

\* line 691: what extractBestAlgorithms returns once it has finished;
\* getAllContributingAlgorithmsToBest has no return statement
returned == IF called = Extract THEN selectedalgsperdimension ELSE None

NextPortfolio ==
    \/ GenerateCell \/ CountContributions \/ StartCell \/ ExtractRow
    \/ EndCell \/ Tally \/ Rank \/ PrintRanking

NextExtract ==
    \/ StartCell \/ ExtractRow \/ EndCell \/ Tally \/ Rank \/ PrintRanking

(***************************************************************************)
(* Lines 167-183 on their own: the loop that writes resDataSet, started    *)
(* with any grid whose targets do not increase down the rows, any winner   *)
(* for each row, and for each algorithm any evals array whose alignment    *)
(* values do not increase down the rows.  The data sets have one run; row  *)
(* number k of an evals array holds the evaluation count k.                *)
(***************************************************************************)
MaxGrid == 3        \* rows of the grid: 1..MaxGrid
MaxTarget == 3      \* targets and alignment values are 1..MaxTarget
MaxEvals == 2       \* rows of an evals array: 1..MaxEvals

NonIncreasing(n, V) ==
    {s \in [1..n -> V] : \A k \in 1..(n - 1) : s[k + 1] <= s[k]}
EvalsInputs ==
    UNION {{[k \in 1..m |-> <<s[k], k>>] : s \in NonIncreasing(m, 1..MaxTarget)}
           : m \in 1..MaxEvals}
TargetColumns ==
    UNION {{[k \in 1..n |-> <<s[k]>>] : s \in NonIncreasing(n, 1..MaxTarget)}
           : n \in 1..MaxGrid}

\* line 169 is reached with the grid res (column 0 only), the winners
\* resalgs and the data sets dict_alg
InitEvals ==
    /\ pc = "evals"
    /\ err = ""
    /\ dict_alg \in [AlgSet -> {[evals |-> e] : e \in EvalsInputs}]
    /\ warned = {}
    /\ usage = FALSE
    /\ d = 2
    /\ f = 1
    /\ dictMaxEvals = <<>>
    /\ dictFinalFunVals = <<>>
    /\ sortedAlgs = Algs
    /\ res \in TargetColumns
    /\ resalgs \in [1..Len(res) -> AlgSet]
    /\ reserts = <<>>
    /\ resDataSet = <<>>
    /\ dictFunValsNoFail = <<>>
    /\ self = NoSelf
    /\ qtargets = <<>>
    /\ qres = <<>>
    /\ NoCall

\* lines 167-183
Reconstruct ==
    /\ pc = "evals"
    /\ resDataSet' = WriteRows(res, resalgs,
                               [a \in DOMAIN dict_alg |-> dict_alg[a].evals],
                               1, <<>>, <<>>)
    /\ pc' = "written"
    /\ UNCHANGED pvars
    /\ UNCHANGED <<err, dict_alg, warned, usage, d, f, dictMaxEvals,
                   dictFinalFunVals, sortedAlgs, res, resalgs, reserts,
                   dictFunValsNoFail, self, qtargets, qres>>

NextEvals == Reconstruct

(***************************************************************************)
(* Lines 185-192 on their own: the loop that fills dictFunValsNoFail,      *)
(* started with any winners and, for each algorithm, any funvals array     *)
(* whose values do not increase down the rows and any final function       *)
(* values.                                                                 *)
(***************************************************************************)
MaxFunRows == 2     \* rows of a funvals array: 1..MaxFunRows
MaxVal == 1         \* function values are 0..MaxVal
MaxWins == 2        \* rows of the grid, each with a winner: 1..MaxWins

FunValsInputs(n) ==
    UNION {{[k \in 1..m |-> <<k>> \o [r \in 1..n |-> u[r][k]]]
            : u \in [1..n -> NonIncreasing(m, 0..MaxVal)]}
           : m \in 1..MaxFunRows}
DataSets ==
    UNION {[funvals : FunValsInputs(n), finalfunvals : [1..n -> 0..MaxVal]]
           : n \in 1..MaxRuns}

\* line 185 is reached with the winners resalgs and the data sets dict_alg
InitNoFail ==
    /\ pc = "nofail"
    /\ err = ""
    /\ dict_alg \in [AlgSet -> DataSets]
    /\ warned = {}
    /\ usage = FALSE
    /\ d = 2
    /\ f = 1
    /\ dictMaxEvals = <<>>
    /\ dictFinalFunVals = [a \in AlgSet |-> dict_alg[a].finalfunvals]
    /\ sortedAlgs = Algs
    /\ res = <<>>
    /\ resalgs \in UNION {[1..n -> AlgSet] : n \in 1..MaxWins}
    /\ reserts = <<>>
    /\ resDataSet = <<>>
    /\ dictFunValsNoFail = <<>>
    /\ self = NoSelf
    /\ qtargets = <<>>
    /\ qres = <<>>
    /\ NoCall

\* lines 185-192
ScanFunVals ==
    /\ pc = "nofail"
    /\ dictFunValsNoFail' =
          [a \in setalgs |->
              NoFailRow(dict_alg[a].funvals, dict_alg[a].finalfunvals, 1)]
    /\ pc' = "scanned"
    /\ UNCHANGED pvars
    /\ UNCHANGED <<err, dict_alg, warned, usage, d, f, dictMaxEvals,
                   dictFinalFunVals, sortedAlgs, res, resalgs, reserts,
                   resDataSet, self, qtargets, qres>>

NextNoFail == ScanFunVals

(***************************************************************************)
(* Lines 194-214 on their own: the fields of the object, started with any  *)
(* order of the kept algorithms, any winners and any final function values *)
(* (np.inf included).                                                      *)
(***************************************************************************)
MaxFinalRuns == 3   \* runs of a data set: 1..MaxFinalRuns

FinalInputs == UNION {[1..n -> (0..MaxVal) \cup {Inf}] : n \in 1..MaxFinalRuns}
Orders == {s \in [1..Len(Algs) -> AlgSet] : Range(s) = AlgSet}

\* line 194 is reached
InitFields ==
    /\ pc = "fields"
    /\ err = ""
    /\ dictFinalFunVals \in [AlgSet -> FinalInputs]
    /\ dict_alg = [a \in AlgSet |-> [finalfunvals |-> dictFinalFunVals[a]]]
    /\ warned = {}
    /\ usage = FALSE
    /\ d = 2
    /\ f = 1
    /\ dictMaxEvals = [a \in AlgSet |-> [r \in DOMAIN dictFinalFunVals[a] |-> 1]]
    /\ sortedAlgs \in Orders
    /\ resalgs \in UNION {[1..n -> AlgSet] : n \in 1..MaxWins}
    /\ res = [k \in DOMAIN resalgs |-> <<Len(resalgs) - k + 1>>]
    /\ reserts = [k \in DOMAIN resalgs |-> 1]
    /\ resDataSet = [k \in DOMAIN resalgs |-> <<res[k][1], 1>>]
    /\ dictFunValsNoFail = [a \in Range(resalgs) |-> <<1>> \o dictFinalFunVals[a]]
    /\ self = NoSelf
    /\ qtargets = <<>>
    /\ qres = <<>>
    /\ NoCall

NextFields == SetFields

(***************************************************************************)
(* The claims.                                                             *)
(***************************************************************************)
Constructed == pc \in {"constructed", "done", "returned"}
Finite(x) == ~isnan(x) /\ x # Inf
\* the columns of grid row row that are not NaN
Defined(row) == {j \in 1..(Len(row) - 1) : ~isnan(row[j + 1])}
AllNaN(row) == Defined(row) = {}
\* the rows of the object whose target is <= ft
Reached(ft) == {i \in DOMAIN self.target : self.target[i] <= ft}

\* C1: in every constructed BestAlgSet, ert[i] is the minimum of the aligned
\* running times of row i that are not NaN, and algs[i] is the first
\* algorithm of sortedAlgs that attains it.
C1_BestIsFirstMinimum ==
    pc = "constructed" =>
        \A i \in DOMAIN res :
            /\ Defined(res[i]) # {}
            /\ \E j \in Defined(res[i]) :
                  /\ self.ert[i] = res[i][j + 1]
                  /\ self.algs[i] = sortedAlgs[j]
                  /\ \A k \in Defined(res[i]) :
                        /\ Le(res[i][j + 1], res[i][k + 1])
                        /\ (k < j => Lt(res[i][j + 1], res[i][k + 1]))

\* a constructed object with a row where both algorithms tie and a row that
\* the second algorithm wins
C1_Witness ==
    /\ pc = "constructed"
    /\ \E i \in DOMAIN res :
          Len(sortedAlgs) = 2 /\ Finite(res[i][2]) /\ res[i][2] = res[i][3]
    /\ \E i \in DOMAIN res : self.algs[i] = "B"

\* C2: when the records span several function ids or several dimensions,
\* construction raises the usage error: it fails there and no later step runs.
C2_UsageErrorAborts ==
    usage => (pc = "failed" /\ sortedAlgs = <<>> /\ self = NoSelf)

C4_AllNaNRowFails ==
    /\ (pc \in {"nofail", "fields", "constructed"}
           => \A i \in DOMAIN res : ~AllNaN(res[i]))
    /\ (Constructed => \A i \in DOMAIN self.algs : self.algs[i] # "" /\ self.ert[i] # Inf)

\* a construction that failed on a grid with a row of NaN only
C4_Witness ==
    /\ pc = "failed"
    /\ err = "KeyError"
    /\ resalgs # <<>>
    /\ \E i \in DOMAIN res : AllNaN(res[i]) /\ resalgs[i] = "" /\ reserts[i] = Inf

\* C5: detERT returns one value per requested target, in their order: the
\* ert of the first row whose target is <= the requested one, and infinity
\* when there is no such row.
C5_DetERTFirstRow ==
    (pc = "returned" /\ qres.op = "detERT") =>
        /\ Len(qres.res) = Len(qtargets)
        /\ \A k \in DOMAIN qtargets :
              IF Reached(qtargets[k]) = {}
              THEN qres.res[k] = Inf
              ELSE \E i \in Reached(qtargets[k]) :
                      /\ \A j \in Reached(qtargets[k]) : i <= j
                      /\ qres.res[k] = self.ert[i]

\* a query of two targets: one no row reaches, and one that a row other than
\* the first is the first to reach
C5_Witness ==
    /\ pc = "returned" /\ qres.op = "detERT"
    /\ Len(qtargets) = 2
    /\ Reached(qtargets[1]) = {}
    /\ Reached(qtargets[2]) = {2}
    /\ self.ert[1] # self.ert[2]

\* C6: detEvals returns, for each requested target, the run entries of the
\* evals row at the index detERT selects, with the algorithm of that row;
\* when no row reaches the target, a vector of NaN, one entry per run of
\* bestfinalfunvals, and None.
C6_DetEvalsSameRow ==
    (pc = "returned" /\ qres.op = "detEvals") =>
        /\ Len(qres.res[1]) = Len(qtargets)
        /\ Len(qres.res[2]) = Len(qtargets)
        /\ \A k \in DOMAIN qtargets :
              IF Reached(qtargets[k]) = {}
              THEN /\ qres.res[1][k] = [r \in 1..Len(self.bestfinalfunvals) |-> NaN]
                   /\ qres.res[2][k] = None
              ELSE \E i \in Reached(qtargets[k]) :
                      /\ \A j \in Reached(qtargets[k]) : i <= j
                      /\ qres.res[1][k] = Tail(self.evals[i])
                      /\ qres.res[2][k] = self.algs[i]

\* a query of an unreached target and of the target of the second row, on an
\* object whose two rows have different best algorithms
C6_Witness ==
    /\ pc = "returned" /\ qres.op = "detEvals"
    /\ Len(qtargets) = 2
    /\ Reached(qtargets[1]) = {}
    /\ Reached(qtargets[2]) = {2}
    /\ self.algs[1] # self.algs[2]

\* C7: maxevals, finalfunvals and funvalsnofail have the same keys: the
\* algorithms that are best in at least one row.
C7_KeysAreTheWinners ==
    Constructed =>
        /\ DOMAIN self.maxevals = Range(self.algs)
        /\ DOMAIN self.finalfunvals = Range(self.algs)
        /\ DOMAIN self.funvalsnofail = Range(self.algs)

\* a constructed object of two kept algorithms of which one is best nowhere
C7_Witness ==
    /\ pc = "constructed"
    /\ Len(sortedAlgs) = 2
    /\ Cardinality(Range(self.algs)) = 1


(***************************************************************************)
(* Claims about extractBestAlgorithms, stated on the row the loop of line  *)
(* 631 has just processed.                                                 *)
(***************************************************************************)
RowDone == called = Extract /\ pc = "rows" /\ irow > 0
RowConsidered == RowDone /\ considered
\* what the row appended to selectedAlgsPerProblemDF
rowcredits ==
    SubSeq(selectedAlgsPerProblemDF, rowstart + 1, Len(selectedAlgsPerProblemDF))
winner == best.algs[irow]
\* the running time of algorithm number k at the target of the row
own(k) == rowerts[k]
NonWinners == {k \in DOMAIN args : args[k] # winner}
WithData == {k \in DOMAIN args : Finite(rowerts[k])}
Credited(k) == args[k] \in Range(rowcredits)
WithinFactor(k) == Le(own(k), Mul(best.ert[irow], f_factor))

\* C8: a considered row at which at least 2 algorithms have data (a finite
\* running time at the target of the row) credits at least 2 algorithms:
\* the winner and at least one non-winner
C8_AtLeastTwoCredited ==
    (RowConsidered /\ Cardinality(WithData) >= 2)
    => /\ Cardinality(Range(rowcredits)) >= 2
       /\ winner \in Range(rowcredits)
       /\ \E k \in NonWinners : Credited(k)

\* a considered row of three algorithms with data, none of the non-winners
\* within the factor: the fallback is the second credit
C8_Witness ==
    /\ RowConsidered
    /\ Cardinality(WithData) = 3
    /\ \A k \in NonWinners : ~WithinFactor(k)
    /\ Len(rowcredits) = 2

\* C9 as stated: at a considered row a non-winner is credited iff (a) it is
\* within the factor, or (b) no non-winner is and it is the non-winner with
\* the smallest running time (NaN is no running time); and no algorithm is
\* credited twice for the row
C9_CreditedIffAsStated ==
    RowConsidered
    => /\ \A k \in NonWinners :
             Credited(k) <=>
                \/ WithinFactor(k)
                \/ /\ \A m \in NonWinners : ~WithinFactor(m)
                   /\ ~isnan(own(k))
                   /\ \A m \in NonWinners : ~isnan(own(m)) => Le(own(k), own(m))
       /\ \A a \in Range(args) : count(rowcredits, a) <= 1

\* C9 amended: (b) holds of the non-winner that is the first, in the order
\* of the algorithm list, among the non-winners with the smallest running
\* time, and only when that running time is finite (the target was reached)
C9_CreditedIff ==
    RowConsidered
    => /\ \A k \in NonWinners :
             Credited(k) <=>
                \/ WithinFactor(k)
                \/ /\ \A m \in NonWinners : ~WithinFactor(m)
                   /\ Finite(own(k))
                   /\ \A m \in NonWinners : Finite(own(m)) => Le(own(k), own(m))
                   /\ \A m \in NonWinners :
                         (m < k /\ Finite(own(m))) => Lt(own(k), own(m))
       /\ \A a \in Range(args) : count(rowcredits, a) <= 1

\* the scenario of the specification: of two non-winners with data one is
\* within the factor and credited, the other is not and is no fallback
C9_Witness ==
    /\ RowConsidered
    /\ Cardinality(WithData) = 3
    /\ \E k, m \in NonWinners :
          /\ WithinFactor(k) /\ Credited(k)
          /\ ~WithinFactor(m) /\ ~Credited(m)

(***************************************************************************)
(* Claims about the tallies of both analyses.                              *)
(***************************************************************************)
RECURSIVE Sum(_)
Sum(s) == IF s = <<>> THEN 0 ELSE Head(s) + Sum(Tail(s))
Tallied(dim, a) ==
    IF <<dim, a>> \in DOMAIN countsperalgorithm
    THEN countsperalgorithm[<<dim, a>>] ELSE 0
Counted == pc \in {"rank", "print", "finished"}
\* the rows of the entry of cell number k that a won with a target in
\* [target_lb, target_ub]
Won(k, a) ==
    LET entry == bestalgentries[<<cells[k][2], cells[k][1]>>] IN
    Cardinality({r \in DOMAIN entry.target :
                    /\ target_lb <= entry.target[r]
                    /\ entry.target[r] <= target_ub
                    /\ entry.algs[r] = a})
\* the rows of cell number k with a target in [target_lb, target_ub]
InRange(k) ==
    LET entry == bestalgentries[<<cells[k][2], cells[k][1]>>] IN
    Cardinality({r \in DOMAIN entry.target :
                    target_lb <= entry.target[r] /\ entry.target[r] <= target_ub})
OfDim(dim, k, n) == IF cells[k][2] = dim THEN n ELSE 0
\* the credits extractBestAlgorithms stored for cell number k
Stored(k) ==
    LET key == <<cells[k][2], cells[k][1]>> IN
    IF key \in DOMAIN selectedAlgsPerProblem
    THEN Len(selectedAlgsPerProblem[key]) ELSE 0

\* C10: once the counts are tallied, the count of (dimension, algorithm) is
\* the number of credits the algorithm got in the cells of the dimension
\* (for the contribution counting: the rows in the target range it won),
\* and the counts of a dimension sum to the credits given in it
C10_CountsAreTheCredits ==
    Counted =>
       \A dim \in Dims :
          /\ \A a \in Range(args) :
                Tallied(dim, a) =
                   IF called = Extract THEN given[<<dim, a>>]
                   ELSE Sum([k \in DOMAIN cells |-> OfDim(dim, k, Won(k, a))])
          /\ Sum([k \in DOMAIN args |-> Tallied(dim, args[k])]) =
                Sum([k \in DOMAIN cells |->
                        OfDim(dim, k, IF called = Extract THEN Stored(k)
                                      ELSE InRange(k))])
          /\ \A k \in DOMAIN countsperalgorithm : k[2] \in Range(args)

\* two functions of one dimension, and an algorithm credited at more rows
\* than there are cells: its count adds up over rows and over functions
C10_Witness ==
    /\ Counted
    /\ called = Extract
    /\ Len(cells) = 2
    /\ cells[1][2] = cells[2][2]
    /\ DOMAIN selectedAlgsPerProblem = {<<2, 1>>, <<2, 2>>}
    /\ \E a \in Range(args) : Tallied(2, a) >= 3

(***************************************************************************)
(* Claim about the result of extractBestAlgorithms.                        *)
(***************************************************************************)
Finished == pc = "finished"
\* the counts of the list s of (count, algorithm) pairs never increase
Descending(s) == \A k \in 1..(Len(s) - 1) : s[k][1] >= s[k + 1][1]

\* C11: for every dimension the list of (count, algorithm) entries that
\* extractBestAlgorithms returns is in descending order of count
C11_ReturnedIsRanking ==
    (Finished /\ called = Extract)
    => \A dim \in DOMAIN returned : Descending(returned[dim])

(***************************************************************************)
(* Claim about the reconstruction of evals.                                *)
(***************************************************************************)
\* the number of the first row of evals whose alignment value is <= t, or 0
FirstRow(evals, t) ==
    IF \E k \in DOMAIN evals : evals[k][1] <= t
    THEN CHOOSE k \in DOMAIN evals :
            /\ evals[k][1] <= t
            /\ \A m \in 1..(k - 1) : evals[m][1] > t
    ELSE 0

\* C12: the evals written with the persistent cursors have one row per grid
\* row; row i starts with target[i], and the rest of it is the rest of the
\* first row of the evals of algs[i] whose alignment value is <= target[i],
\* whenever there is such a row
C12_CursorsGiveFreshScan ==
    pc = "written"
    => /\ Len(resDataSet) = Len(res)
       /\ \A i \in DOMAIN res :
             /\ resDataSet[i][1] = res[i][1]
             /\ LET evals == dict_alg[resalgs[i]].evals
                    k == FirstRow(evals, res[i][1]) IN
                k # 0 => Tail(resDataSet[i]) = Tail(evals[k])

\* winners alternate A, B, A; A is read at its first row for row 1 and at
\* its second row for row 3, B at its second row for row 2
C12_Witness ==
    /\ pc = "written"
    /\ resalgs = <<"A", "B", "A">>
    /\ FirstRow(dict_alg["A"].evals, res[1][1]) = 1
    /\ FirstRow(dict_alg["B"].evals, res[2][1]) = 2
    /\ FirstRow(dict_alg["A"].evals, res[3][1]) = 2

(***************************************************************************)
(* Claim about funvalsnofail.                                              *)
(***************************************************************************)
Scanned == pc = "scanned"
\* the part of a funvals row after the evaluations column
TailOf(curline) == [r \in 1..(Len(curline) - 1) |-> curline[r + 1]]
\* the first row of funvals that satisfies P, or else the last row
FirstOrLast(funvals, P(_)) ==
    IF \E k \in DOMAIN funvals : P(funvals[k])
    THEN funvals[CHOOSE k \in DOMAIN funvals :
                    P(funvals[k]) /\ \A m \in 1..(k - 1) : ~P(funvals[m])]
    ELSE funvals[Len(funvals)]

\* C13 as stated: funvalsnofail of a winner is the first row of its funvals
\* whose tail does not equal its finalfunvals, or the last row when no row
\* differs
C13_FirstRowThatDiffers ==
    Scanned =>
       /\ DOMAIN dictFunValsNoFail = Range(resalgs)
       /\ \A a \in Range(resalgs) :
             LET Differs(curline) == TailOf(curline) # dict_alg[a].finalfunvals IN
             dictFunValsNoFail[a] = FirstOrLast(dict_alg[a].funvals, Differs)

\* C13 amended: funvalsnofail of a winner is the first row of its funvals in
\* which the value of at least one run equals the final function value of
\* that run, or the last row when there is no such row
C13_FirstRowThatReachesAFinalValue ==
    Scanned =>
       /\ DOMAIN dictFunValsNoFail = Range(resalgs)
       /\ \A a \in Range(resalgs) :
             LET Reaches(curline) ==
                    \E r \in DOMAIN dict_alg[a].finalfunvals :
                       curline[r + 1] = dict_alg[a].finalfunvals[r] IN
             dictFunValsNoFail[a] = FirstOrLast(dict_alg[a].funvals, Reaches)

\* a winner with two runs: its first row has no final value, its second row
\* has the final value of one run only, and is the row taken
C13_Witness ==
    /\ Scanned
    /\ \E a \in Range(resalgs) :
          LET funvals == dict_alg[a].funvals
              finalfunvals == dict_alg[a].finalfunvals IN
          /\ Len(finalfunvals) = 2
          /\ Len(funvals) = 2
          /\ \A r \in 1..2 : funvals[1][r + 1] # finalfunvals[r]
          /\ funvals[2][2] = finalfunvals[1]
          /\ funvals[2][3] # finalfunvals[2]
          /\ dictFunValsNoFail[a] = funvals[2]

(***************************************************************************)
(* Claim about bestfinalfunvals.                                           *)
(***************************************************************************)
\* the place of algorithm a in sortedAlgs
Place(a) == CHOOSE k \in DOMAIN sortedAlgs : sortedAlgs[k] = a
MedianOf(a) == Median2(dictFinalFunVals[a])

\* C14: algbestfinalfunvals of a constructed object is the kept algorithm
\* with the smallest median of finalfunvals, the first in sortedAlgs of
\* those with that median, winner or not, and bestfinalfunvals is its
\* finalfunvals
C14_SmallestMedianFirstInOrder ==
    pc = "constructed" =>
       LET best_alg == self.algbestfinalfunvals IN
       /\ best_alg \in Range(sortedAlgs)
       /\ \A a \in Range(sortedAlgs) :
             /\ MedianOf(best_alg) <= MedianOf(a) \/ MedianOf(a) = Inf
             /\ Place(a) < Place(best_alg) =>
                   (MedianOf(a) > MedianOf(best_alg) \/ MedianOf(a) = Inf)
       /\ MedianOf(best_alg) # Inf
       /\ self.bestfinalfunvals = dictFinalFunVals[best_alg]

\* the algorithm with the smallest median won no row, and the winner, later
\* in sortedAlgs, has the same median
C14_Witness ==
    /\ pc = "constructed"
    /\ self.algbestfinalfunvals \notin Range(resalgs)
    /\ \E a \in Range(resalgs) :
          /\ MedianOf(a) = MedianOf(self.algbestfinalfunvals)
          /\ Place(a) > Place(self.algbestfinalfunvals)
          /\ dictFinalFunVals[a] # dictFinalFunVals[self.algbestfinalfunvals]

Spec == Init /\ [][Next]_vars
SpecPortfolio == InitPortfolio /\ [][NextPortfolio]_vars
SpecExtract == InitExtract /\ [][NextExtract]_vars
SpecEvals == InitEvals /\ [][NextEvals]_vars
SpecNoFail == InitNoFail /\ [][NextNoFail]_vars
SpecFields == InitFields /\ [][NextFields]_vars
=============================================================================
